---- MODULE Spec2Model ----
(***************************************************************************)
(* Model of os/src/fs/inode.rs: the in-memory file handle (OSInode), the  *)
(* open-flag resolver, open_file, scatter-gather read/write and the       *)
(* process-wide link-count table NLINK_MAP.                                *)
(***************************************************************************)
EXTENDS Integers, Sequences, FiniteSets, TLC

(* ------------------------------ bounds --------------------------------- *)
\* handles that are open at once
MaxHandles == 2
\* bytes the underlying store holds for one file
MaxFileLen == 2
\* slices of one UserBuffer
MaxSlices == 2
\* bytes of one destination slice of read
MaxSliceLen == 2
\* bytes of one source slice of write
MaxWriteLen == 1
\* increase_nlink and decrease_nlink calls on one inode id
MaxLinkOps == 4

\* the longest stored file read_all is run on, in whole buffers
MaxChunks == 2

Names == {"a", "b"}
\* the inode ids of the files; the root directory is inode 0
Ids == 1..Cardinality(Names)
\* the callers that run the link-count functions concurrently
Callers == {"t1", "t2"}
Bytes == {0, 1}

(* ------------------------------ OpenFlags ------------------------------ *)
RDONLY == 0
WRONLY == 1
RDWR == 2
CREATE == 512
TRUNC == 1024

RECURSIVE BitAnd(_, _)
BitAnd(a, b) ==
  IF a = 0 \/ b = 0 THEN 0
  ELSE (IF a % 2 = 1 /\ b % 2 = 1 THEN 1 ELSE 0) + 2 * BitAnd(a \div 2, b \div 2)

\* every bitmask over the four flag bits
FlagBits ==
  { w + r + c + t : w \in {0, WRONLY}, r \in {0, RDWR},
                    c \in {0, CREATE}, t \in {0, TRUNC} }

is_empty(flags) == flags = 0
contains(flags, other) == BitAnd(flags, other) = other

read_write_wronly_last(flags) ==
  IF is_empty(flags) THEN <<TRUE, FALSE>>
  ELSE IF contains(flags, RDWR) THEN <<TRUE, TRUE>>
  ELSE IF contains(flags, WRONLY) THEN <<FALSE, TRUE>>
  ELSE <<TRUE, TRUE>>

read_write(flags) ==
  IF is_empty(flags) THEN <<TRUE, FALSE>>
  ELSE IF contains(flags, WRONLY) THEN <<FALSE, TRUE>>
  ELSE <<TRUE, TRUE>>

(* ------------------------------ state ---------------------------------- *)
VARIABLES
  dir,        \* the root directory: name -> inode id, for the names present
  data,       \* inode id -> content (sequence of bytes)
  handles,    \* the OSInode objects, in the order they were opened
  NLINK_MAP,  \* inode id -> stored link count, for the ids present
  panicked,   \* an assertion or unwrap has aborted the kernel
  last,       \* the call that ran last: its arguments and what it returned
  rt,         \* history: how far the calls so far are a write at cursor 0, then
              \* an open of the same file, then a read through the new handle
  nlog,       \* history: inode id -> the link-count calls on it so far, in order
  pc,         \* caller -> where it is inside increase_nlink or list_apps
  arg,        \* caller -> the inode_id of the call it is inside
  ROOT_INODE, \* the lazy static: its Once state, the mounts done, the root made
  seen,       \* caller -> the root it got from ROOT_INODE last
  inside,     \* caller -> the OSInode method it is inside, and how far
  borrowed    \* the handles whose inner is borrowed by exclusive_access

vars == <<dir, data, handles, NLINK_MAP, panicked, last, rt, nlog, pc, arg,
          ROOT_INODE, seen, inside, borrowed>>

\* what the steps of the file layer and of the link-count table leave alone
methods == <<inside, borrowed>>
root == <<ROOT_INODE, seen>>

\* Option::None, for an inode and for a handle
None == 0

NoCall ==
  [op |-> "none", h |-> 0, name |-> "", flags |-> 0, id |-> 0,
   buf |-> <<>>, ret |-> 0, out |-> <<>>, visited |-> 0]

\* a caller that is inside no OSInode method
\* (at: before the borrow, in the loop, or past it; start and pre: the cursor
\* and the content when the borrow was taken)
Idle ==
  [op |-> "idle", h |-> 0, buf |-> <<>>, at |-> "idle", i |-> 0, start |-> 0,
   total |-> 0, pre |-> <<>>]

RtIdle == [stage |-> 0, inode |-> 0, S |-> <<>>, h |-> 0, create |-> FALSE, trunc |-> FALSE]

RECURSIVE Flatten(_)
Flatten(slices) ==
  IF slices = <<>> THEN <<>> ELSE Head(slices) \o Flatten(Tail(slices))

RECURSIVE Sum(_)
Sum(sizes) == IF sizes = <<>> THEN 0 ELSE Head(sizes) + Sum(Tail(sizes))

Min(a, b) == IF a < b THEN a ELSE b
Max(a, b) == IF a > b THEN a ELSE b

(* ------------------- the underlying file system (easy_fs) -------------- *)
find(name) == IF name \in DOMAIN dir THEN dir[name] ELSE None

\* the content of inode after Inode::clear
clear(inode) == [data EXCEPT ![inode] = <<>>]

\* Inode::read_at: the bytes at offset, at most len of them, up to the end
read_at(content, offset, len) ==
  IF offset >= Len(content) THEN <<>>
  ELSE SubSeq(content, offset + 1,
              IF offset + len < Len(content) THEN offset + len ELSE Len(content))

\* how many bytes of a slice of length len the store takes at offset
write_size_at(offset, len) ==
  IF offset + len <= MaxFileLen THEN len
  ELSE IF offset >= MaxFileLen THEN 0 ELSE MaxFileLen - offset

\* Inode::write_at: the content after n bytes of slice are written at offset;
\* the file grows to offset + n when it was shorter, a gap reads as zero
write_at(content, offset, slice, n) ==
  LET size == Max(Len(content), offset + n)
  IN [i \in 1..size |->
        IF i > offset /\ i <= offset + n THEN slice[i - offset]
        ELSE IF i <= Len(content) THEN content[i] ELSE 0]

(* ------------------------------ read_all ------------------------------- *)
\* let mut buffer = [0u8; 512]
BUFFER_LEN == 512

\* the loop of read_all: v the bytes collected so far, lens the length each
\* read_at returned so far
RECURSIVE read_all_loop_advance_by_chunk(_, _, _, _)
read_all_loop_advance_by_chunk(content, offset, v, lens) ==
  LET got == read_at(content, offset, BUFFER_LEN)
  IN IF Len(got) = 0
     THEN [offset |-> offset, v |-> v, lens |-> Append(lens, 0)]
     ELSE read_all_loop_advance_by_chunk(content, offset + BUFFER_LEN, v \o got,
                                         Append(lens, Len(got)))

RECURSIVE read_all_loop(_, _, _, _)
read_all_loop(content, offset, v, lens) ==
  LET got == read_at(content, offset, BUFFER_LEN)
  IN IF Len(got) = 0
     THEN [offset |-> offset, v |-> v, lens |-> Append(lens, 0)]
     ELSE read_all_loop(content, offset + Len(got), v \o got, Append(lens, Len(got)))

(* ------------------------------ ROOT_INODE ----------------------------- *)
\* the lazy static before its first use
Unmounted == [once |-> "incomplete", mounts |-> 0, inode |-> None]

\* EasyFileSystem::open and root_inode: one more mount, and the Arc it makes
mounted(lazy) ==
  [once |-> "complete", mounts |-> lazy.mounts + 1, inode |-> lazy.mounts + 1]

\* the lazy static after a use that nothing interrupts
forced(lazy) == IF lazy.once = "complete" THEN lazy ELSE mounted(lazy)

(* ------------------------------ OSInode -------------------------------- *)
\* inner.offset = offset, through the handle h
advance_all_on_inode(h, offset) ==
  [i \in 1..Len(handles) |->
     IF handles[i].inode = handles[h].inode
     THEN [handles[i] EXCEPT !.offset = offset] ELSE handles[i]]

advance(h, offset) == [handles EXCEPT ![h].offset = offset]

OSInode_new_at_one(readable, writable, inode) ==
  [readable |-> readable, writable |-> writable, offset |-> 1, inode |-> inode]

OSInode_new(readable, writable, inode) ==
  [readable |-> readable, writable |-> writable, offset |-> 0, inode |-> inode]

wants_create_or_trunc(flags) == contains(flags, CREATE) \/ contains(flags, TRUNC)

wants_create_checks_trunc(flags) == contains(flags, TRUNC)

wants_create(flags) == contains(flags, CREATE)

wants_trunc_inverted(flags) == ~contains(flags, TRUNC)

wants_trunc_never(flags) == FALSE

wants_trunc(flags) == contains(flags, TRUNC)

\* an open that rewinds the handles already on the inode
opened_rewinds(name, flags, inode) ==
  /\ handles' = Append([i \in 1..Len(handles) |->
                          IF handles[i].inode = inode
                          THEN [handles[i] EXCEPT !.offset = 0] ELSE handles[i]],
                       OSInode_new(read_write(flags)[1], read_write(flags)[2], inode))
  /\ last' = [NoCall EXCEPT !.op = "open_file", !.name = name, !.flags = flags,
                            !.ret = Len(handles) + 1]
  /\ panicked' = panicked
  /\ rt' = IF rt.stage = 1 /\ rt.inode = inode
           THEN [rt EXCEPT !.stage = 2, !.h = Len(handles) + 1,
                           !.create = contains(flags, CREATE),
                           !.trunc = contains(flags, TRUNC)]
           ELSE RtIdle

opened(name, flags, inode) ==
  /\ handles' = Append(handles,
                       OSInode_new(read_write(flags)[1], read_write(flags)[2], inode))
  /\ last' = [NoCall EXCEPT !.op = "open_file", !.name = name, !.flags = flags,
                            !.ret = Len(handles) + 1]
  /\ panicked' = panicked
  /\ rt' = IF rt.stage = 1 /\ rt.inode = inode
           THEN [rt EXCEPT !.stage = 2, !.h = Len(handles) + 1,
                           !.create = contains(flags, CREATE),
                           !.trunc = contains(flags, TRUNC)]
           ELSE RtIdle

\* the None of find or of create, unwrapped
not_opened_unwrap(name, flags) ==
  /\ handles' = handles
  /\ last' = [NoCall EXCEPT !.op = "open_file", !.name = name, !.flags = flags,
                            !.ret = None]
  /\ panicked' = TRUE
  /\ rt' = RtIdle

not_opened(name, flags) ==
  /\ handles' = handles
  /\ last' = [NoCall EXCEPT !.op = "open_file", !.name = name, !.flags = flags,
                            !.ret = None]
  /\ panicked' = panicked
  /\ rt' = RtIdle

\* ROOT_INODE.create(name): a new empty inode, or None when the store has no room
create_ok(name) ==
  LET inode == Cardinality(DOMAIN dir) + 1
  IN /\ dir' = [n \in DOMAIN dir \cup {name} |-> IF n = name THEN inode ELSE dir[n]]
     /\ data' = [i \in DOMAIN data \cup {inode} |-> IF i = inode THEN <<>> ELSE data[i]]

open_file(name, flags) ==
  /\ ~panicked
  /\ Len(handles) < MaxHandles
  /\ ROOT_INODE.once # "running"
  /\ ROOT_INODE' = forced(ROOT_INODE)
  /\ UNCHANGED <<NLINK_MAP, nlog, pc, arg, seen, methods>>
  /\ IF wants_create(flags)
     THEN IF find(name) # None
          THEN /\ data' = clear(find(name))
               /\ dir' = dir
               /\ opened(name, flags, find(name))
          ELSE \/ /\ create_ok(name)
                  /\ opened(name, flags, Cardinality(DOMAIN dir) + 1)
               \/ /\ UNCHANGED <<dir, data>>
                  /\ not_opened(name, flags)
     ELSE IF find(name) # None
          THEN /\ data' = IF wants_trunc(flags) THEN clear(find(name)) ELSE data
               /\ dir' = dir
               /\ opened(name, flags, find(name))
          ELSE /\ UNCHANGED <<dir, data>>
               /\ not_opened(name, flags)

(* ------------------------------ read ----------------------------------- *)
\* the for loop of read over the slices from the i-th on: sizes are the slice
\* lengths, out the bytes copied into each slice so far
RECURSIVE read_loop_advance_by_slice(_, _, _, _, _, _)
read_loop_advance_by_slice(content, offset, sizes, i, total, out) ==
  IF i > Len(sizes) THEN [offset |-> offset, total |-> total, out |-> out, visited |-> i - 1]
  ELSE LET got == read_at(content, offset, sizes[i])
       IN read_loop_advance_by_slice(content, offset + sizes[i], sizes, i + 1, total + Len(got),
                             [out EXCEPT ![i] = got])

RECURSIVE read_loop(_, _, _, _, _, _)
read_loop(content, offset, sizes, i, total, out) ==
  IF i > Len(sizes) THEN [offset |-> offset, total |-> total, out |-> out, visited |-> i - 1]
  ELSE LET got == read_at(content, offset, sizes[i])
       IN IF Len(got) = 0
          THEN [offset |-> offset, total |-> total, out |-> out, visited |-> i]
          ELSE read_loop(content, offset + Len(got), sizes, i + 1, total + Len(got),
                         [out EXCEPT ![i] = got])

read(h, sizes) ==
  LET inner == handles[h]
      r == read_loop(data[inner.inode], inner.offset, sizes, 1, 0,
                     [i \in 1..Len(sizes) |-> <<>>])
  IN /\ ~panicked
     /\ handles' = advance(h, r.offset)
     /\ last' = [NoCall EXCEPT !.op = "read", !.h = h, !.buf = sizes,
                               !.ret = r.total, !.out = r.out, !.visited = r.visited]
     /\ rt' = IF rt.stage = 2 /\ rt.h = h THEN [rt EXCEPT !.stage = 3] ELSE RtIdle
     /\ UNCHANGED <<dir, data, NLINK_MAP, panicked, nlog, pc, arg, root, methods>>

(* ------------------------------ write ---------------------------------- *)
\* the for loop of write over the slices from the i-th on; ok is FALSE when
\* assert_eq!(write_size, slice.len()) failed
RECURSIVE write_loop_no_assert(_, _, _, _, _)
write_loop_no_assert(content, offset, slices, i, total) ==
  IF i > Len(slices)
  THEN [content |-> content, offset |-> offset, total |-> total, ok |-> TRUE]
  ELSE LET n == write_size_at(offset, Len(slices[i]))
           written == write_at(content, offset, slices[i], n)
       IN write_loop_no_assert(written, offset + n, slices, i + 1, total + n)

RECURSIVE write_loop(_, _, _, _, _)
write_loop(content, offset, slices, i, total) ==
  IF i > Len(slices)
  THEN [content |-> content, offset |-> offset, total |-> total, ok |-> TRUE]
  ELSE LET n == write_size_at(offset, Len(slices[i]))
           written == write_at(content, offset, slices[i], n)
       IN IF n # Len(slices[i])
          THEN [content |-> written, offset |-> offset, total |-> total, ok |-> FALSE]
          ELSE write_loop(written, offset + n, slices, i + 1, total + n)

write(h, slices) ==
  LET inner == handles[h]
      w == write_loop(data[inner.inode], inner.offset, slices, 1, 0)
  IN /\ ~panicked
     /\ data' = [data EXCEPT ![inner.inode] = w.content]
     /\ handles' = advance(h, w.offset)
     /\ panicked' = ~w.ok
     /\ last' = [NoCall EXCEPT !.op = IF w.ok THEN "write" ELSE "write_abort",
                               !.h = h, !.buf = slices,
                               !.ret = IF w.ok THEN w.total ELSE 0]
     /\ rt' = IF w.ok /\ inner.offset = 0
              THEN [RtIdle EXCEPT !.stage = 1, !.inode = inner.inode, !.S = Flatten(slices)]
              ELSE RtIdle
     /\ UNCHANGED <<dir, NLINK_MAP, nlog, pc, arg, root, methods>>


(* ------------------------------ NLINK_MAP ------------------------------ *)
contains_key(m, id) == id \in DOMAIN m

insert_one(m, id) == [i \in DOMAIN m \cup {id} |-> IF i = id THEN 1 ELSE m[i]]

\* nlink_map.insert(inode_id, 2)
insert(m, id) == [i \in DOMAIN m \cup {id} |-> IF i = id THEN 2 ELSE m[i]]

\* *nlink += 1
add_one(m, id) == [m EXCEPT ![id] = @ + 1]

remove(m, id) == [i \in DOMAIN m \ {id} |-> m[i]]

\* the table after the body of decrease_nlink
decreased_removed_at_one(m, id) ==
  IF contains_key(m, id)
  THEN IF m[id] - 1 <= 1 THEN remove(m, id) ELSE [m EXCEPT ![id] = @ - 1]
  ELSE m

decreased_or_insert(m, id) ==
  IF contains_key(m, id)
  THEN IF m[id] - 1 = 0 THEN remove(m, id) ELSE [m EXCEPT ![id] = @ - 1]
  ELSE [i \in DOMAIN m \cup {id} |-> IF i = id THEN 1 ELSE m[i]]

decreased_kept_at_zero(m, id) ==
  IF contains_key(m, id) THEN [m EXCEPT ![id] = @ - 1] ELSE m

decreased(m, id) ==
  IF contains_key(m, id)
  THEN IF m[id] - 1 = 0 THEN remove(m, id) ELSE [m EXCEPT ![id] = @ - 1]
  ELSE m

\* the table after the body of increase_nlink, run without interruption
increased(m, id) == IF contains_key(m, id) THEN add_one(m, id) ELSE insert(m, id)

get_nlink(id) == IF contains_key(NLINK_MAP, id) THEN NLINK_MAP[id] ELSE 1

increase_nlink(id) ==
  /\ ~panicked
  /\ Len(nlog[id]) < MaxLinkOps
  /\ NLINK_MAP' = increased(NLINK_MAP, id)
  /\ nlog' = [nlog EXCEPT ![id] = Append(@, "inc")]
  /\ last' = [NoCall EXCEPT !.op = "increase_nlink", !.id = id]
  /\ rt' = RtIdle
  /\ UNCHANGED <<dir, data, handles, panicked, pc, arg, root, methods>>

\* *nlink -= 1 on a stored 0 overflows usize: the kernel panics
decrease_nlink(id) ==
  /\ ~panicked
  /\ Len(nlog[id]) < MaxLinkOps
  /\ IF contains_key(NLINK_MAP, id) /\ NLINK_MAP[id] = 0
     THEN /\ panicked' = TRUE
          /\ NLINK_MAP' = NLINK_MAP
     ELSE /\ panicked' = panicked
          /\ NLINK_MAP' = decreased(NLINK_MAP, id)
  /\ nlog' = [nlog EXCEPT ![id] = Append(@, "dec")]
  /\ last' = [NoCall EXCEPT !.op = "decrease_nlink", !.id = id]
  /\ rt' = RtIdle
  /\ UNCHANGED <<dir, data, handles, pc, arg, root, methods>>

\* OSInode::get_inode_id
get_inode_id(h) == handles[h].inode

\* OSInode::get_nlink
OSInode_get_nlink(h) ==
  /\ ~panicked
  /\ last' = [NoCall EXCEPT !.op = "get_nlink", !.h = h, !.id = get_inode_id(h),
                            !.ret = get_nlink(get_inode_id(h))]
  /\ rt' = RtIdle
  /\ UNCHANGED <<dir, data, handles, NLINK_MAP, panicked, nlog, pc, arg, root, methods>>

\* OSInode::get_inode_id, called
OSInode_get_inode_id(h) ==
  /\ ~panicked
  /\ last' = [NoCall EXCEPT !.op = "get_inode_id", !.h = h, !.ret = get_inode_id(h)]
  /\ rt' = RtIdle
  /\ UNCHANGED <<dir, data, handles, NLINK_MAP, panicked, nlog, pc, arg, root, methods>>

\* OSInode::read_all: out is the vector returned, buf the length of each read
read_all(h) ==
  LET inner == handles[h]
      r == read_all_loop(data[inner.inode], inner.offset, <<>>, <<>>)
  IN /\ ~panicked
     /\ handles' = advance(h, r.offset)
     /\ last' = [NoCall EXCEPT !.op = "read_all", !.h = h, !.buf = r.lens,
                               !.ret = Len(r.v), !.out = r.v,
                               !.visited = Len(r.lens)]
     /\ rt' = RtIdle
     /\ UNCHANGED <<dir, data, NLINK_MAP, panicked, nlog, pc, arg, root, methods>>

(* --------------- increase_nlink, one exclusive_access at a time -------- *)
\* line 108: the borrow taken for contains_key ends with the condition
inc_check(t, id) ==
  /\ ~panicked
  /\ pc[t] = "idle"
  /\ Len(nlog[id]) < MaxLinkOps
  /\ pc' = [pc EXCEPT ![t] = IF contains_key(NLINK_MAP, id) THEN "get_mut" ELSE "insert"]
  /\ arg' = [arg EXCEPT ![t] = id]
  /\ UNCHANGED <<dir, data, handles, NLINK_MAP, panicked, last, rt, nlog, root, methods>>

\* lines 109-111: get_mut(&inode_id).unwrap() panics on None
inc_get_mut(t) ==
  /\ ~panicked
  /\ pc[t] = "get_mut"
  /\ IF contains_key(NLINK_MAP, arg[t])
     THEN /\ NLINK_MAP' = add_one(NLINK_MAP, arg[t])
          /\ panicked' = FALSE
     ELSE /\ NLINK_MAP' = NLINK_MAP
          /\ panicked' = TRUE
  /\ pc' = [pc EXCEPT ![t] = "idle"]
  /\ nlog' = [nlog EXCEPT ![arg[t]] = Append(@, "inc")]
  /\ last' = [NoCall EXCEPT !.op = "increase_nlink", !.id = arg[t]]
  /\ UNCHANGED <<dir, data, handles, rt, arg, root, methods>>

\* line 113
inc_insert(t) ==
  /\ ~panicked
  /\ pc[t] = "insert"
  /\ NLINK_MAP' = insert(NLINK_MAP, arg[t])
  /\ pc' = [pc EXCEPT ![t] = "idle"]
  /\ nlog' = [nlog EXCEPT ![arg[t]] = Append(@, "inc")]
  /\ last' = [NoCall EXCEPT !.op = "increase_nlink", !.id = arg[t]]
  /\ UNCHANGED <<dir, data, handles, panicked, rt, arg, root, methods>>

\* decrease_nlink holds one borrow from its first line to its last
dec_call(t, id) == pc[t] = "idle" /\ decrease_nlink(id)

\* get_nlink holds one borrow from its first line to its last
get_call(t, id) ==
  /\ ~panicked
  /\ pc[t] = "idle"
  /\ last' = [NoCall EXCEPT !.op = "get_nlink", !.id = id, !.ret = get_nlink(id)]
  /\ UNCHANGED <<dir, data, handles, NLINK_MAP, panicked, rt, nlog, pc, arg, root, methods>>

(* --------------- ROOT_INODE, one step of its Once at a time ------------ *)
\* the first touch of the lazy static, with nothing that claims the
\* initialisation for one caller
root_begin_unclaimed(t) ==
  /\ ~panicked
  /\ pc[t] = "idle"
  /\ pc' = [pc EXCEPT ![t] = IF ROOT_INODE.once = "complete"
                             THEN "root_ready" ELSE "root_init"]
  /\ ROOT_INODE' = ROOT_INODE
  /\ UNCHANGED <<dir, data, handles, NLINK_MAP, panicked, last, rt, nlog, arg, seen,
                 methods>>

\* the first touch of the lazy static by list_apps (line 70): one caller
\* claims the initialisation, the others wait for it
root_begin(t) ==
  /\ ~panicked
  /\ pc[t] = "idle"
  /\ pc' = [pc EXCEPT ![t] = IF ROOT_INODE.once = "complete" THEN "root_ready"
                             ELSE IF ROOT_INODE.once = "running" THEN "root_wait"
                             ELSE "root_init"]
  /\ ROOT_INODE' = IF ROOT_INODE.once = "incomplete"
                   THEN [ROOT_INODE EXCEPT !.once = "running"] ELSE ROOT_INODE
  /\ UNCHANGED <<dir, data, handles, NLINK_MAP, panicked, last, rt, nlog, arg, seen,
                 methods>>

\* lines 61-62: the initialiser mounts the file system and makes the root
root_init(t) ==
  /\ ~panicked
  /\ pc[t] = "root_init"
  /\ ROOT_INODE' = mounted(ROOT_INODE)
  /\ pc' = [pc EXCEPT ![t] = "root_ready"]
  /\ UNCHANGED <<dir, data, handles, NLINK_MAP, panicked, last, rt, nlog, arg, seen,
                 methods>>

\* a caller that found the initialisation running waits until it is complete
root_wait(t) ==
  /\ ~panicked
  /\ pc[t] = "root_wait"
  /\ ROOT_INODE.once = "complete"
  /\ pc' = [pc EXCEPT ![t] = "root_ready"]
  /\ UNCHANGED <<dir, data, handles, NLINK_MAP, panicked, last, rt, nlog, arg, root,
                 methods>>

\* list_apps: ROOT_INODE.ls() on the root the caller got
list_apps(t) ==
  /\ ~panicked
  /\ pc[t] = "root_ready"
  /\ seen' = [seen EXCEPT ![t] = ROOT_INODE.inode]
  /\ last' = [NoCall EXCEPT !.op = "list_apps", !.ret = Cardinality(DOMAIN dir)]
  /\ pc' = [pc EXCEPT ![t] = "idle"]
  /\ rt' = RtIdle
  /\ UNCHANGED <<dir, data, handles, NLINK_MAP, panicked, nlog, arg, ROOT_INODE,
                 methods>>

(* --------------- the methods of a handle, one step at a time ----------- *)
\* a caller enters a method of the handle h
method_call(t, op, h, buf) ==
  /\ ~panicked
  /\ inside[t] = Idle
  /\ inside' = [inside EXCEPT ![t] = [Idle EXCEPT !.op = op, !.h = h, !.buf = buf,
                                                  !.at = "call"]]
  /\ UNCHANGED <<dir, data, handles, NLINK_MAP, panicked, last, rt, nlog, pc, arg, root,
                 borrowed>>

\* self.inner.exclusive_access(), the first statement of every method: the
\* caller gets the borrow of inner when no other caller holds it
exclusive_access(t) ==
  LET c == inside[t]
  IN /\ ~panicked
     /\ c.at = "call"
     /\ c.h \notin borrowed
     /\ borrowed' = borrowed \cup {c.h}
     /\ inside' = [inside EXCEPT ![t] =
                     [c EXCEPT !.at = IF c.op \in {"get_inode_id", "get_nlink"} \/
                                         (c.op \in {"read", "write"} /\ c.buf = <<>>)
                                      THEN "ret" ELSE "loop",
                               !.i = 1,
                               !.start = handles[c.h].offset,
                               !.pre = data[handles[c.h].inode]]]
     /\ UNCHANGED <<dir, data, handles, NLINK_MAP, panicked, last, rt, nlog, pc, arg, root>>

\* an iteration of read that ends the borrow of inner with the statement
\* that used it
read_step_reborrowing(t) ==
  LET c == inside[t]
      inner == handles[c.h]
      got == read_at(data[inner.inode], inner.offset, c.buf[c.i])
  IN /\ ~panicked
     /\ c.op = "read" /\ c.at = "loop"
     /\ IF Len(got) = 0
        THEN /\ handles' = handles
             /\ inside' = [inside EXCEPT ![t].at = "ret"]
        ELSE /\ handles' = advance(c.h, inner.offset + Len(got))
             /\ inside' = [inside EXCEPT ![t] =
                             [c EXCEPT !.total = c.total + Len(got), !.i = c.i + 1,
                                       !.at = IF c.i = Len(c.buf) THEN "ret" ELSE "loop"]]
     /\ borrowed' = borrowed \ {c.h}
     /\ UNCHANGED <<dir, data, NLINK_MAP, panicked, last, rt, nlog, pc, arg, root>>

\* one iteration of the for loop of read
read_step(t) ==
  LET c == inside[t]
      inner == handles[c.h]
      got == read_at(data[inner.inode], inner.offset, c.buf[c.i])
  IN /\ ~panicked
     /\ c.op = "read" /\ c.at = "loop"
     /\ IF Len(got) = 0
        THEN /\ handles' = handles
             /\ inside' = [inside EXCEPT ![t].at = "ret"]
        ELSE /\ handles' = advance(c.h, inner.offset + Len(got))
             /\ inside' = [inside EXCEPT ![t] =
                             [c EXCEPT !.total = c.total + Len(got), !.i = c.i + 1,
                                       !.at = IF c.i = Len(c.buf) THEN "ret" ELSE "loop"]]
     /\ UNCHANGED <<dir, data, NLINK_MAP, panicked, last, rt, nlog, pc, arg, root, borrowed>>

\* one iteration of the for loop of write
write_step(t) ==
  LET c == inside[t]
      inner == handles[c.h]
      n == write_size_at(inner.offset, Len(c.buf[c.i]))
  IN /\ ~panicked
     /\ c.op = "write" /\ c.at = "loop"
     /\ data' = [data EXCEPT ![inner.inode] = write_at(@, inner.offset, c.buf[c.i], n)]
     /\ IF n # Len(c.buf[c.i])
        THEN /\ panicked' = TRUE
             /\ last' = [NoCall EXCEPT !.op = "write_abort", !.h = c.h, !.buf = c.buf]
             /\ UNCHANGED <<handles, inside>>
        ELSE /\ handles' = advance(c.h, inner.offset + n)
             /\ inside' = [inside EXCEPT ![t] =
                             [c EXCEPT !.total = c.total + n, !.i = c.i + 1,
                                       !.at = IF c.i = Len(c.buf) THEN "ret" ELSE "loop"]]
             /\ UNCHANGED <<panicked, last>>
     /\ UNCHANGED <<dir, NLINK_MAP, rt, nlog, pc, arg, root, borrowed>>

\* one iteration of the loop of read_all
read_all_step(t) ==
  LET c == inside[t]
      inner == handles[c.h]
      got == read_at(data[inner.inode], inner.offset, BUFFER_LEN)
  IN /\ ~panicked
     /\ c.op = "read_all" /\ c.at = "loop"
     /\ IF Len(got) = 0
        THEN /\ handles' = handles
             /\ inside' = [inside EXCEPT ![t].at = "ret"]
        ELSE /\ handles' = advance(c.h, inner.offset + Len(got))
             /\ inside' = [inside EXCEPT ![t].total = c.total + Len(got)]
     /\ UNCHANGED <<dir, data, NLINK_MAP, panicked, last, rt, nlog, pc, arg, root, borrowed>>

\* the method returns: inner goes out of scope and the borrow ends
method_return(t) ==
  LET c == inside[t]
  IN /\ ~panicked
     /\ c.at = "ret"
     /\ borrowed' = borrowed \ {c.h}
     /\ inside' = [inside EXCEPT ![t] = Idle]
     /\ last' = [NoCall EXCEPT !.op = c.op, !.h = c.h, !.buf = c.buf,
                               !.ret = IF c.op = "get_inode_id" THEN get_inode_id(c.h)
                                       ELSE IF c.op = "get_nlink"
                                       THEN get_nlink(get_inode_id(c.h))
                                       ELSE c.total]
     /\ rt' = RtIdle
     /\ UNCHANGED <<dir, data, handles, NLINK_MAP, panicked, nlog, pc, arg, root>>

(* ------------------------------ inputs --------------------------------- *)
RECURSIVE SeqsUpTo(_, _)
SeqsUpTo(S, n) ==
  IF n = 0 THEN {<<>>}
  ELSE LET shorter == SeqsUpTo(S, n - 1)
       IN shorter \cup { Append(s, x) : s \in {t \in shorter : Len(t) = n - 1}, x \in S }

\* the slice lengths of a destination UserBuffer
ReadBufs == SeqsUpTo(0..MaxSliceLen, MaxSlices)
\* the slices of a source UserBuffer
WriteBufs == SeqsUpTo(SeqsUpTo(Bytes, MaxWriteLen), MaxSlices)

\* the bits of the opens that give a handle to read and write through
\* (the flags are distinct bits, so their union is their sum)
HandleFlags == {RDWR, RDWR + CREATE, RDWR + TRUNC}
\* the lengths of the files stored before boot: around every whole number of
\* buffers
FileLens == { n \in 0..(MaxChunks * BUFFER_LEN + 1) :
                \E k \in 0..MaxChunks : n \in {k * BUFFER_LEN - 1, k * BUFFER_LEN,
                                                k * BUFFER_LEN + 1} }
\* a stored file of n bytes
Stored(n) == [i \in 1..n |-> IF i % 3 = 0 THEN 1 ELSE 0]
\* the slice lengths that move a cursor into such a file
SeekBufs == {<<BUFFER_LEN - 1>>, <<BUFFER_LEN>>}

(* ------------------------------ the system ----------------------------- *)
Init ==
  /\ dir = <<>>
  /\ data = <<>>
  /\ handles = <<>>
  /\ NLINK_MAP = <<>>
  /\ panicked = FALSE
  /\ last = NoCall
  /\ rt = RtIdle
  /\ nlog = [id \in Ids |-> <<>>]
  /\ pc = [t \in Callers |-> "idle"]
  /\ arg = [t \in Callers |-> 0]
  /\ ROOT_INODE = Unmounted
  /\ seen = [t \in Callers |-> None]
  /\ inside = [t \in Callers |-> Idle]
  /\ borrowed = {}

Open == \E name \in Names, flags \in FlagBits : open_file(name, flags)
Read == \E h \in 1..Len(handles), sizes \in ReadBufs : read(h, sizes)
Write == \E h \in 1..Len(handles), slices \in WriteBufs : write(h, slices)

Next == Open \/ Read \/ Write

Spec == Init /\ [][Next]_vars

\* the link-count table under one caller: files are created, linked and
\* unlinked, and their handles asked for the count
OpenCreate == \E name \in Names : open_file(name, CREATE)
Increase == \E id \in Ids : increase_nlink(id)
Decrease == \E id \in Ids : decrease_nlink(id)
GetNlink == \E h \in 1..Len(handles) : OSInode_get_nlink(h)

NextLink == OpenCreate \/ Increase \/ Decrease \/ GetNlink

SpecLink == Init /\ [][NextLink]_vars

\* the link-count table under concurrent callers, which interleave wherever
\* no borrow of NLINK_MAP is held
IncCheck == \E t \in Callers, id \in Ids : inc_check(t, id)
IncGetMut == \E t \in Callers : inc_get_mut(t)
IncInsert == \E t \in Callers : inc_insert(t)
DecCall == \E t \in Callers, id \in Ids : dec_call(t, id)
GetCall == \E t \in Callers, id \in Ids : get_call(t, id)

NextConc == IncCheck \/ IncGetMut \/ IncInsert \/ DecCall \/ GetCall

SpecConc == Init /\ [][NextConc]_vars

\* the cursors: handles that read and write are opened, on the same file too,
\* and every method of a handle is called
OpenHandle == \E name \in Names, flags \in HandleFlags : open_file(name, flags)
ReadAll == \E h \in 1..Len(handles) : read_all(h)
GetInodeId == \E h \in 1..Len(handles) : OSInode_get_inode_id(h)

NextHandle == OpenHandle \/ Read \/ Write \/ ReadAll \/ GetInodeId \/ GetNlink

SpecHandle == Init /\ [][NextHandle]_vars

\* read_all on the files of a disk image: the kernel boots with one stored
\* file, of some length
InitStored ==
  /\ \E n \in FileLens :
       /\ dir = [name \in {"a"} |-> 1]
       /\ data = [i \in {1} |-> Stored(n)]
  /\ handles = <<>>
  /\ NLINK_MAP = <<>>
  /\ panicked = FALSE
  /\ last = NoCall
  /\ rt = RtIdle
  /\ nlog = [id \in Ids |-> <<>>]
  /\ pc = [t \in Callers |-> "idle"]
  /\ arg = [t \in Callers |-> 0]
  /\ ROOT_INODE = Unmounted
  /\ seen = [t \in Callers |-> None]
  /\ inside = [t \in Callers |-> Idle]
  /\ borrowed = {}

OpenStored == \E name \in Names : open_file(name, RDONLY)
Seek == \E h \in 1..Len(handles), sizes \in SeekBufs : read(h, sizes)

NextStored == OpenStored \/ Seek \/ ReadAll

SpecStored == InitStored /\ [][NextStored]_vars

\* the methods of a handle under concurrent callers, which interleave at
\* every iteration of a loop
SliceLens == SeqsUpTo({1}, MaxSlices) \ {<<>>}
Slices == SeqsUpTo({<<1>>}, MaxSlices) \ {<<>>}
MethodCall ==
  \E t \in Callers, h \in 1..Len(handles) :
    \/ \E sizes \in SliceLens : method_call(t, "read", h, sizes)
    \/ \E slices \in Slices : method_call(t, "write", h, slices)
    \/ \E op \in {"read_all", "get_inode_id", "get_nlink"} : method_call(t, op, h, <<>>)
ExclusiveAccess == \E t \in Callers : exclusive_access(t)
ReadStep == \E t \in Callers : read_step(t)
WriteStep == \E t \in Callers : write_step(t)
ReadAllStep == \E t \in Callers : read_all_step(t)
MethodReturn == \E t \in Callers : method_return(t)

NextMethods ==
  OpenCreate \/ MethodCall \/ ExclusiveAccess \/ ReadStep \/ WriteStep \/ ReadAllStep
    \/ MethodReturn

SpecMethods == Init /\ [][NextMethods]_vars

\* the root singleton under concurrent callers of list_apps, while files are
\* opened
RootBegin == \E t \in Callers : root_begin(t)
RootInit == \E t \in Callers : root_init(t)
RootWait == \E t \in Callers : root_wait(t)
ListApps == \E t \in Callers : list_apps(t)
OpenPlain == \E name \in Names, flags \in {RDONLY, CREATE} : open_file(name, flags)

NextRoot == RootBegin \/ RootInit \/ RootWait \/ ListApps \/ OpenPlain

SpecRoot == Init /\ [][NextRoot]_vars

(* ------------------------------ claims --------------------------------- *)
IsOpen(call) == call.op = "open_file"

\* C1: an open without create-if-missing of a name that is absent under the
\* root returns None, creates no file, clears no content and makes no handle,
\* with or without truncate-on-open.
C1_AbsentWithoutCreate ==
  [][ (IsOpen(last') /\ ~contains(last'.flags, CREATE) /\ last'.name \notin DOMAIN dir)
        => (last'.ret = None /\ dir' = dir /\ data' = data /\ handles' = handles) ]_vars

\* C1 happens: a truncate-on-open of an absent name returned None while the
\* other file exists and has content
C1_Witness ==
  /\ IsOpen(last) /\ contains(last.flags, TRUNC) /\ ~contains(last.flags, CREATE)
  /\ last.ret = None
  /\ last.name \notin DOMAIN dir
  /\ \E n \in DOMAIN dir : Len(data[dir[n]]) > 0

\* C2 as stated: every open with create-if-missing yields a handle, on a name
\* that was absent (the first call) as on a name that is present (the second
\* call), and leaves the file with size 0.
C2_HandleBothTimes ==
  [][ (IsOpen(last') /\ contains(last'.flags, CREATE))
        => (/\ last'.ret # None
            /\ last'.name \in DOMAIN dir'
            /\ data'[dir'[last'.name]] = <<>>) ]_vars

\* C2 amended: an open with create-if-missing of an absent name yields a handle
\* on a new empty file, or no handle and no file when the create failed; an
\* open with create-if-missing of a present name (the second call) always
\* yields a handle on that same inode and leaves its size 0, whatever was
\* written to it before.
C2_SecondOpenTruncates ==
  [][ (IsOpen(last') /\ contains(last'.flags, CREATE))
        => IF last'.name \in DOMAIN dir
           THEN /\ last'.ret = Len(handles) + 1
                /\ handles' = Append(handles, handles'[last'.ret])
                /\ handles'[last'.ret].inode = dir[last'.name]
                /\ handles'[last'.ret].offset = 0
                /\ dir' = dir
                /\ data' = [data EXCEPT ![dir[last'.name]] = <<>>]
           ELSE \/ /\ last'.ret = None
                   /\ dir' = dir /\ data' = data /\ handles' = handles
                \/ /\ last'.ret = Len(handles) + 1
                   /\ last'.name \in DOMAIN dir'
                   /\ handles'[last'.ret].inode = dir'[last'.name]
                   /\ data'[dir'[last'.name]] = <<>>
                   /\ \A n \in DOMAIN dir : dir'[n] = dir[n] /\ data'[dir[n]] = data[dir[n]] ]_vars

\* C2 happens: the second create-open of a name returned a second handle on
\* the inode of the first, which had been written through, and the file is empty
C2_Witness ==
  /\ IsOpen(last) /\ contains(last.flags, CREATE) /\ last.ret = 2
  /\ handles[1].inode = handles[2].inode
  /\ handles[1].offset > 0
  /\ data[handles[2].inode] = <<>>

\* the destination of a read that can take exactly n bytes: non-empty slices
\* of total length n
TakesExactly(sizes, n) == Sum(sizes) = n /\ \A i \in 1..Len(sizes) : sizes[i] > 0

\* C3 as stated: after a write of S at cursor 0, an open of the same name
\* whose flags lack truncate-on-open, and a read through the new handle into a
\* destination of Len(S) bytes, the bytes read are S.
C3_RoundTripWithoutTrunc ==
  (rt.stage = 3 /\ ~rt.trunc /\ TakesExactly(last.buf, Len(rt.S)))
    => (Flatten(last.out) = rt.S /\ last.ret = Len(rt.S))

\* C3 amended: the same, for an open whose flags lack both truncate-on-open
\* and create-if-missing.
C3_RoundTrip ==
  (rt.stage = 3 /\ ~rt.trunc /\ ~rt.create /\ TakesExactly(last.buf, Len(rt.S)))
    => (Flatten(last.out) = rt.S /\ last.ret = Len(rt.S))

\* C3 happens: two different bytes written in two slices came back in order
C3_Witness ==
  /\ rt.stage = 3 /\ ~rt.trunc /\ ~rt.create
  /\ rt.S = <<0, 1>>
  /\ TakesExactly(last.buf, 2)
  /\ Flatten(last.out) = <<0, 1>>

\* the sum of the first k slice lengths
SumTo(sizes, k) == Sum(SubSeq(sizes, 1, k))

\* C8: a read into non-empty slices of total capacity c, with r bytes left
\* after the cursor, returns min(r, c), advances the cursor by what it
\* returns, fills the slices in order with the bytes after the cursor, each
\* slice before the next, and copies nothing into a slice that lies wholly
\* past the end of the file.
C8_ReadStopsAtEof ==
  [][ (last'.op = "read" /\ \A i \in 1..Len(last'.buf) : last'.buf[i] > 0)
        => LET h == last'.h
               sizes == last'.buf
               content == data[handles[h].inode]
               cursor == handles[h].offset
               r == Max(0, Len(content) - cursor)
               n == Min(r, Sum(sizes))
           IN /\ last'.ret = n
              /\ handles'[h].offset = cursor + n
              /\ Len(last'.out) = Len(sizes)
              /\ Flatten(last'.out) = SubSeq(content, cursor + 1, cursor + n)
              /\ \A i \in 1..Len(sizes) :
                   Len(last'.out[i]) = Min(sizes[i], Max(0, n - SumTo(sizes, i - 1)))
              /\ data' = data ]_vars

\* C8 happens: two bytes were left, the destination was two slices of two
\* bytes, the read returned 2 and the second slice got nothing
C8_Witness ==
  /\ last.op = "read" /\ last.buf = <<2, 2>>
  /\ last.ret = 2
  /\ Len(last.out[1]) = 2 /\ last.out[2] = <<>>
  /\ handles[last.h].offset = 2

\* C9: a write whose slices the store takes in full returns the sum of the
\* slice lengths, has advanced the cursor by that sum and has put the slices'
\* bytes, in order, at the old cursor; a write with a slice the store takes
\* short aborts and returns nothing.
C9_WriteAllOrAbort ==
  [][ (last'.op \in {"write", "write_abort"})
        => LET h == last'.h
               slices == last'.buf
               inode == handles[h].inode
               cursor == handles[h].offset
               total == Len(Flatten(slices))
           IN IF cursor + total <= MaxFileLen
              THEN /\ last'.op = "write"
                   /\ ~panicked'
                   /\ last'.ret = total
                   /\ handles'[h].offset = cursor + total
                   /\ total > 0 =>
                        SubSeq(data'[inode], cursor + 1, cursor + total) = Flatten(slices)
              ELSE /\ last'.op = "write_abort"
                   /\ panicked' ]_vars

\* C9 happens: the cursor had advanced over slices written in full to the end
\* of the store, and the write aborted on the slice after them
C9_Witness ==
  /\ last.op = "write_abort" /\ panicked
  /\ Len(last.buf) = 2
  /\ handles[last.h].offset = MaxFileLen
  /\ Len(data[handles[last.h].inode]) = MaxFileLen

\* the pair the resolution policy gives a bitmask: bit 0 is write-only
PolicyPair(flags) ==
  IF flags = 0 THEN <<TRUE, FALSE>>
  ELSE IF flags % 2 = 1 THEN <<FALSE, TRUE>>
  ELSE <<TRUE, TRUE>>

\* C10: the handle an open returns carries the pair the policy gives its
\* flags, for every bitmask over the four bits, and no step changes the
\* readable or writable of a handle.
C10_CapabilityPair ==
  [][ /\ (IsOpen(last') /\ last'.ret # None)
          => <<handles'[last'.ret].readable, handles'[last'.ret].writable>>
               = PolicyPair(last'.flags)
      /\ \A i \in 1..Len(handles) :
           /\ i <= Len(handles')
           /\ handles'[i].readable = handles[i].readable
           /\ handles'[i].writable = handles[i].writable ]_vars

\* C10 happens: a handle opened write-only and read-write at once is
\* write-only, and still is after it was written through
C10_Witness ==
  /\ \E i \in 1..Len(handles) :
       /\ handles[i].offset > 0
       /\ ~handles[i].readable /\ handles[i].writable
  /\ IsOpen(last) /\ last.flags = WRONLY + RDWR + CREATE /\ last.ret # None
  /\ ~handles[last.ret].readable

\* the calls of C4 on one id, in order
TwoEach == <<"inc", "inc", "dec", "dec">>

\* C4 as stated: after increase_nlink twice and decrease_nlink twice on an id
\* that had no entry, the table holds no entry for the id and get_nlink
\* returns 1.
C4_NoEntryAfterTwoEach ==
  \A id \in Ids :
    nlog[id] = TwoEach => (~contains_key(NLINK_MAP, id) /\ get_nlink(id) = 1)

\* C4 amended: after increase_nlink twice and decrease_nlink twice on an id
\* that had no entry, the table holds the entry (id, 1) and get_nlink returns
\* 1, through a handle on that inode as well.
C4_EntryOneAfterTwoEach ==
  /\ \A id \in Ids :
       nlog[id] = TwoEach
         => (contains_key(NLINK_MAP, id) /\ NLINK_MAP[id] = 1 /\ get_nlink(id) = 1)
  /\ (last.op = "get_nlink" /\ nlog[last.id] = TwoEach) => last.ret = 1

\* C4 happens: a handle was asked for the count after the four calls
C4_Witness ==
  /\ last.op = "get_nlink" /\ last.h # 0
  /\ handles[last.h].inode = last.id
  /\ nlog[last.id] = TwoEach
  /\ last.ret = 1

\* C5: get_nlink of an id returns 1 before any link call on it, 2 after one
\* increase_nlink, and 1 after an increase_nlink and then a decrease_nlink;
\* the get_nlink of a handle returns the same for the id of its inode.
C5_Expected(log) ==
  IF log = <<>> THEN 1 ELSE IF log = <<"inc">> THEN 2 ELSE 1

C5_Defaults ==
  /\ \A id \in Ids :
       nlog[id] \in {<<>>, <<"inc">>, <<"inc", "dec">>}
         => get_nlink(id) = C5_Expected(nlog[id])
  /\ (last.op = "get_nlink" /\ nlog[last.id] \in {<<>>, <<"inc">>, <<"inc", "dec">>})
       => (/\ last.ret = C5_Expected(nlog[last.id])
           /\ last.h # 0 => last.id = handles[last.h].inode)

\* C5 happens: a handle returned 2 for a file that was linked once while the
\* other file, never linked, still counts 1
C5_Witness ==
  /\ last.op = "get_nlink" /\ last.h # 0
  /\ nlog[last.id] = <<"inc">>
  /\ last.ret = 2
  /\ \E id \in Ids : nlog[id] = <<>> /\ get_nlink(id) = 1

\* C6: no id is stored with a count below 1, and no decrement has taken a
\* stored count below zero (which would have aborted).
C6_NoZeroEntry ==
  /\ \A id \in DOMAIN NLINK_MAP : NLINK_MAP[id] >= 1
  /\ ~panicked

\* C6 happens: a decrement took a stored 1 to 0 and the entry is gone
C6_Witness ==
  /\ last.op = "decrease_nlink"
  /\ nlog[last.id] = <<"inc", "dec", "dec">>
  /\ ~contains_key(NLINK_MAP, last.id)

\* C7: each link-count call is atomic under concurrent callers: between the
\* check of an id's presence in increase_nlink and its update the table has
\* not changed for that id (so no increment is lost to an overwrite), and no
\* call has failed on an entry that went away.
C7_Atomic ==
  /\ \A t \in Callers :
       /\ pc[t] = "get_mut" => contains_key(NLINK_MAP, arg[t])
       /\ pc[t] = "insert" => ~contains_key(NLINK_MAP, arg[t])
  /\ ~panicked

\* C11: an open with create-if-missing of an absent name whose create fails
\* (the name is still absent afterwards) returns None, as a failed lookup
\* does, changes nothing and does not abort.
C11_CreateFailureIsNone ==
  [][ (/\ IsOpen(last') /\ contains(last'.flags, CREATE)
       /\ last'.name \notin DOMAIN dir /\ last'.name \notin DOMAIN dir')
        => (/\ last'.ret = None
            /\ ~panicked'
            /\ dir' = dir /\ data' = data /\ handles' = handles) ]_vars

\* C11 happens: a create-open returned None while the name is absent, with
\* the other file and a handle on it in place
C11_Witness ==
  /\ IsOpen(last) /\ contains(last.flags, CREATE)
  /\ last.ret = None /\ ~panicked
  /\ last.name \notin DOMAIN dir
  /\ Len(handles) > 0

\* C12: an open with truncate-on-open of an existing file that is already
\* empty leaves it empty, changes no other file and returns a new handle
\* with cursor 0.
C12_TruncEmptyIdempotent ==
  [][ (/\ IsOpen(last') /\ contains(last'.flags, TRUNC)
       /\ last'.name \in DOMAIN dir /\ data[dir[last'.name]] = <<>>)
        => (/\ last'.ret = Len(handles) + 1
            /\ Len(handles') = Len(handles) + 1
            /\ handles'[last'.ret].offset = 0
            /\ handles'[last'.ret].inode = dir[last'.name]
            /\ dir' = dir /\ data' = data) ]_vars

\* C12 happens: a second handle was opened with truncate-on-open alone on a
\* file that nothing was ever written to
C12_Witness ==
  /\ IsOpen(last) /\ last.flags = TRUNC /\ last.ret = 2
  /\ handles[1].inode = handles[2].inode
  /\ handles[1].offset = 0 /\ handles[2].offset = 0
  /\ data[handles[2].inode] = <<>>

\* C16: an open of an existing file empties it when the flags hold
\* create-if-missing or truncate-on-open, and leaves every content as it was
\* when they hold neither; no other file changes either way.
C16_ClearsIffCreateOrTrunc ==
  [][ (IsOpen(last') /\ last'.name \in DOMAIN dir)
        => (/\ dir' = dir
            /\ data' = IF contains(last'.flags, CREATE) \/ contains(last'.flags, TRUNC)
                       THEN [data EXCEPT ![dir[last'.name]] = <<>>]
                       ELSE data) ]_vars

\* C16 happens: create-if-missing alone, without truncate-on-open, emptied a
\* file that had been written through the first handle
C16_Witness ==
  /\ IsOpen(last) /\ last.flags = CREATE /\ last.ret = 2
  /\ handles[1].inode = handles[2].inode
  /\ handles[1].offset = MaxFileLen
  /\ data[handles[2].inode] = <<>>

\* C14: a decrease_nlink of an id that has no entry leaves the table as it
\* was, for every id, and get_nlink of the id still returns 1.
C14_DecreaseAbsentNoOp ==
  [][ \A id \in Ids :
        (last'.op = "decrease_nlink" /\ last'.id = id /\ ~contains_key(NLINK_MAP, id))
          => (NLINK_MAP' = NLINK_MAP /\ (get_nlink(id))' = 1 /\ ~panicked') ]_vars

\* C14 happens: the only call on an id was a decrease, the id has no entry,
\* and the other id has one
C14_Witness ==
  /\ last.op = "decrease_nlink"
  /\ nlog[last.id] = <<"dec">>
  /\ ~contains_key(NLINK_MAP, last.id)
  /\ \E id \in Ids : contains_key(NLINK_MAP, id)

\* C15: a read that returned without visiting every destination slice left
\* the cursor at or past the end of the file, zero-length slices included.
C15_StopsOnlyAtEof ==
  (last.op = "read" /\ last.visited < Len(last.buf))
    => handles[last.h].offset >= Len(data[handles[last.h].inode])

\* C13: however many callers touch ROOT_INODE at once, the file system is
\* mounted once, every caller gets the one root that mount made, and the
\* root, once made, is never replaced.
C13_MountOnce ==
  [][ /\ ROOT_INODE'.mounts <= 1
      /\ ROOT_INODE'.once = "complete" => ROOT_INODE'.mounts = 1
      /\ \A t \in Callers : seen'[t] # None => seen'[t] = ROOT_INODE'.inode
      /\ ROOT_INODE.inode # None => ROOT_INODE'.inode = ROOT_INODE.inode ]_vars

\* C13 happens: a caller that found the initialisation running is still
\* waiting while another has the root of the single mount
C13_Witness ==
  \E t1, t2 \in Callers :
    /\ t1 # t2
    /\ seen[t1] # None /\ seen[t1] = ROOT_INODE.inode
    /\ pc[t2] = "root_wait"
    /\ ROOT_INODE.mounts = 1

\* C17: a new handle's cursor is 0; no call makes any cursor smaller, not
\* even an open that truncates the file; a cursor changes only through a
\* read, write or read_all on its own handle, and when that call returns the
\* cursor has grown by the byte count returned.
C17_CursorMonotone ==
  [][ /\ Len(handles') >= Len(handles)
      /\ \A i \in 1..Len(handles) :
           /\ handles'[i].offset >= handles[i].offset
           /\ handles'[i].offset # handles[i].offset
                => (last'.h = i /\ last'.op \in {"read", "write", "write_abort", "read_all"})
      /\ \A i \in (Len(handles) + 1)..Len(handles') : handles'[i].offset = 0
      /\ (last'.op \in {"read", "write", "read_all"} /\ last'.h \in 1..Len(handles))
           => handles'[last'.h].offset = handles[last'.h].offset + last'.ret ]_vars

\* C17 happens: a file was truncated by an open while another handle on it
\* had its cursor at the end, and the cursor is still there
C17_Witness ==
  /\ last.op = "open_file" /\ last.ret = 2 /\ contains(last.flags, TRUNC)
  /\ handles[1].inode = handles[2].inode
  /\ handles[1].offset = MaxFileLen
  /\ data[handles[1].inode] = <<>>

\* C18: a read, write or read_all through one handle, and an open, leave the
\* cursor of every other handle as it was, the handles on the same inode
\* included.
C18_OtherCursorsKept ==
  [][ \A i \in 1..Len(handles) :
        (last'.op \in {"read", "write", "write_abort", "read_all", "open_file"}
           /\ last'.h # i)
          => handles'[i].offset = handles[i].offset ]_vars

\* C18 happens: two handles on one inode, the second moved to 1 by a read
\* while the first stayed at the end of the file
C18_Witness ==
  /\ Len(handles) = 2
  /\ handles[1].inode = handles[2].inode
  /\ last.op = "read" /\ last.h = 2 /\ last.ret = 1
  /\ handles[2].offset = 1
  /\ handles[1].offset = MaxFileLen

\* the bytes of content from offset to the end
FromCursor(content, offset) ==
  IF offset >= Len(content) THEN <<>> ELSE SubSeq(content, offset + 1, Len(content))

\* C19: read_all returns the bytes from the cursor to the end of the file, in
\* order (none when the cursor is at or past the end), in reads of at most
\* 512 bytes of which only the last returns 0, after finitely many reads, and
\* leaves the cursor advanced by the number of bytes returned.
C19_ReadAllDrains ==
  [][ \A h \in 1..Len(handles) :
        (last'.op = "read_all" /\ last'.h = h)
          => LET content == data[handles[h].inode]
                 offset == handles[h].offset
                 rest == FromCursor(content, offset)
             IN /\ last'.out = rest
                /\ last'.ret = Len(rest)
                /\ handles'[h].offset = offset + Len(rest)
                /\ data' = data
                /\ Len(last'.buf) = (Len(rest) + BUFFER_LEN - 1) \div BUFFER_LEN + 1
                /\ \A i \in 1..Len(last'.buf) :
                     /\ last'.buf[i] <= BUFFER_LEN
                     /\ last'.buf[i] = 0 <=> i = Len(last'.buf)
                /\ Sum(last'.buf) = Len(rest) ]_vars

\* C19 happens: a read_all from inside the file that took a full buffer, a
\* part of one and the read of 0
C19_Witness ==
  /\ last.op = "read_all"
  /\ handles[last.h].offset > last.ret
  /\ Len(last.buf) = 3
  /\ last.buf[1] = BUFFER_LEN
  /\ last.buf[2] \in 1..(BUFFER_LEN - 1)

\* the caller holds the borrow of the inner of its handle
Holding(t) == inside[t].at \in {"loop", "ret"}

\* no other handle is on the inode of h
Sole(h) == \A i \in 1..Len(handles) : i # h => handles[i].inode # handles[h].inode

\* C20: every method of a handle borrows inner first and keeps the borrow
\* until it returns, so two calls on one handle never hold it together, the
\* cursor of a handle moves only by the steps of the caller holding it, and a
\* call returns what it would have returned run alone from the state it
\* found.
C20_CallsSerialize ==
  /\ \A t1, t2 \in Callers :
       (t1 # t2 /\ Holding(t1) /\ Holding(t2)) => inside[t1].h # inside[t2].h
  /\ \A h \in borrowed : \E t \in Callers : Holding(t) /\ inside[t].h = h
  /\ \A t \in Callers :
       Holding(t)
         => LET c == inside[t]
                inner == handles[c.h]
            IN /\ c.h \in borrowed
               /\ inner.offset = c.start + c.total
               /\ (c.at = "ret" /\ Sole(c.h) /\ c.op = "read")
                    => LET r == read_loop(c.pre, c.start, c.buf, 1, 0,
                                          [i \in 1..Len(c.buf) |-> <<>>])
                       IN r.offset = inner.offset /\ r.total = c.total
                            /\ data[inner.inode] = c.pre
               /\ (c.at = "ret" /\ Sole(c.h) /\ c.op = "write")
                    => LET w == write_loop(c.pre, c.start, c.buf, 1, 0)
                       IN w.ok /\ w.offset = inner.offset /\ w.total = c.total
                            /\ data[inner.inode] = w.content
               /\ (c.at = "ret" /\ Sole(c.h) /\ c.op = "read_all")
                    => LET r == read_all_loop(c.pre, c.start, <<>>, <<>>)
                       IN r.offset = inner.offset /\ Len(r.v) = c.total
                            /\ data[inner.inode] = c.pre

\* C20 happens: a write of two slices is about to return while another
\* caller, inside read on the same handle, is kept at the borrow
C20_Witness ==
  \E t1, t2 \in Callers :
    /\ t1 # t2
    /\ inside[t1].op = "write" /\ inside[t1].at = "ret" /\ Len(inside[t1].buf) = 2
    /\ inside[t2].op = "read" /\ inside[t2].at = "call"
    /\ inside[t2].h = inside[t1].h
    /\ Sole(inside[t1].h)
    /\ handles[inside[t1].h].offset = MaxFileLen
====
